---- MODULE Spec2Model ----
(***************************************************************************)
(* Model of src/app.py: the websocket event bus (ws_queues, ws_locks,      *)
(* add_ws_event, the two /api/events handlers, WebSocketObserver) and the  *)
(* life cycle of the global engine handle `core` (shutdown, start_rhasspy, *)
(* api_restart), with the request handlers api_start_recording,            *)
(* api_text_to_intent, api_speech_to_intent, api_stop_recording and        *)
(* api_train.                                                              *)
(*                                                                         *)
(* Request handlers and websocket handlers are greenlets of the gevent     *)
(* loop on the main thread: they are switched only where the code yields   *)
(* (gevent.sleep(0), a blocking q.get(), ws.send, a contended lock).  The  *)
(* variable cur names the greenlet that holds the main thread, or Hub.     *)
(* The observer actor runs on a thread of its own and is preemptible.      *)
(***************************************************************************)
EXTENDS Naturals, Integers, Sequences, FiniteSets, TLC

\* ---- bounds of the model ----
NumSessions == 2
NumRestarts == 2
MaxNotify == 1
MaxSettings == 1
MaxEntities == 2

\* ---- program constants ----
WS_EVENT_INTENT == 0
WS_EVENT_LOG == 1

Channels == {WS_EVENT_INTENT, WS_EVENT_LOG}

\* ---- tasks ----
Main == <<"main", 0>>
Hub == <<"hub", 0>>
NoTask == <<"none", 0>>
Ws == {<<"ws", i>> : i \in 1..NumSessions}
Observers == {<<"observer", 1>>}
Requests == {<<"request", 1>>}
SpeechRequests == {<<"speech", 1>>}
StopRequests == {<<"stop", 1>>}
Recorders == {<<"recorder", 1>>}
Restarts == {<<"restart", i>> : i \in 1..NumRestarts}
Trainers == {<<"train", 1>>}
\* An observer callback that the engine invokes on the main thread, inside the gevent loop.
Callbacks == {<<"callback", 1>>}
Greenlets ==
  {Main} \cup Ws \cup Requests \cup Recorders \cup Restarts \cup Trainers \cup Callbacks
    \cup SpeechRequests \cup StopRequests
Threads == Observers
Tasks == Greenlets \cup Threads
Starters == {Main} \cup Restarts
\* The boot and every restart construct at most one engine each.
Engines == 1..(NumRestarts + 1)
None == 0

VARIABLES
  pc,         \* pc[t]: position of task t in its handler
  cur,        \* the greenlet running on the main thread, or Hub
  ws_queues,  \* ws_queues[c]: the dict of channel c, in insertion order: <<[ws, q]>>
  ws_locks,   \* ws_locks[c]: the task holding the lock of channel c, or NoTask
  pub,        \* pub[t]: the frame of t's call of add_ws_event
  chan,       \* chan[s]: the channel whose endpoint websocket s connected to
  conn,       \* conn[s]: the client side of websocket s: "none", "open", "gone"
  closed,     \* closed[s]: ws.closed
  text,       \* text[s]: the local variable text of the handler of s (0: none)
  core,       \* the global core: an engine, or None
  eng,        \* eng[e]: "absent", "created", "started", "stopped", "failed"
  stops,      \* stops[e]: how often core.shutdown() ran on engine e
  start,      \* start[t]: the frame of t's call of start_rhasspy
  nset,       \* len(args.set)
  notified,   \* notified[o]: number of messages observer o has received
  published,  \* history: the calls of add_ws_event in the order they took the lock;
              \* the text of a call is its place in this order
  pushed,     \* history: pushed[s]: the texts put on the queue of s
  sent,       \* history: sent[s]: the texts handed to ws.send of s, in order
  seen,       \* history: seen[h]: the state of the engine request h found in core
  resp,       \* resp[h]: the response of request h: its status (0: none yet) and its
              \* body, a sequence of words; with status 0 a non-empty body is the
              \* message of the exception that handle_error is turning into a response
  result,     \* result[h]: the local result of api_train: what core.train returned
  calls,      \* history: calls[t]: what task t did about intents, in order: it took
              \* a notification ("intent", "other") or a recognition ("recognized"),
              \* published on the intent channel ("publish"), sent the ping
              \* ("bridge"), called core.handle_intent ("handle"), returned ("return")
  message,    \* message[o]: message.intent of the IntentRecognized sent to observer o
  intent_json \* intent_json[o]: the local intent_json of in_started

busVars == <<ws_queues, ws_locks, pub, published, pushed>>
sessVars == <<chan, conn, closed, text, sent>>
lifeVars == <<core, eng, stops, start, nset>>
obsVars == <<message, intent_json>>
vars == <<pc, cur, ws_queues, ws_locks, pub, chan, conn, closed, text,
          core, eng, stops, start, nset, notified, published, pushed, sent, seen, resp,
          result, calls, message, intent_json>>

\* ---- helpers ----
NoPub == [pc |-> "none", ch |-> 0, msg |-> 0, idx |-> 0]
NoStart == [pc |-> "none", idx |-> 0]
NoResp == [status |-> 0, body |-> <<>>]
NoResult == [type |-> "none", reason |-> <<>>]

Keys(c) == {ws_queues[c][i].ws : i \in 1..Len(ws_queues[c])}

IndexOf(c, s) == CHOOSE i \in 1..Len(ws_queues[c]) : ws_queues[c][i].ws = s

QueueOf(s) == ws_queues[chan[s]][IndexOf(chan[s], s)].q

RemoveAt(seq, i) == SubSeq(seq, 1, i - 1) \o SubSeq(seq, i + 1, Len(seq))

\* The process runs until its exit handlers run.
Alive == pc[Main] \in {"boot", "listen", "serving"}

\* The gevent loop: a greenlet runs when it holds the main thread or the hub does.
CanRun(t) == Alive /\ (t \in Threads \/ cur \in {t, Hub})

Keep(t) == cur' = IF t \in Threads THEN cur ELSE t

\* (variant: the greenlet keeps the main thread)
NoYield(t) == cur' = IF t \in Threads THEN cur ELSE t

Yield(t) == cur' = IF t \in Threads THEN cur ELSE Hub

Serving == pc[Main] = "serving"

\* Task t is at a step of its own handler: it runs and is in no call.
Ready(t) ==
  /\ Serving
  /\ CanRun(t)
  /\ pub[t].pc = "none"
  /\ t \in Starters => start[t].pc = "none"

\* ---- ws_locks: gevent.lock.RLock ----
\* (variant: a lock that excludes nobody)
AcquirableNoLock(c, t) == TRUE

\* (variant: one lock for all channels)
AcquirableOneLock(c, t) == \A d \in Channels : ws_locks[d] \in {NoTask, t}

Acquirable(c, t) == ws_locks[c] \in {NoTask, t}

\* ---- the queue operations of gevent.queue.Queue ----
\* (variant: a queue that is filled at its head)
QueuePutFront(q, m) == <<m>> \o q

QueuePut(q, m) == Append(q, m)

QueueGet(q) == Head(q)

QueueRest(q) == Tail(q)

\* ---- add_ws_event ----
\* The call; the caller waits until pub[t].pc = "none" again.
add_ws_event(t, c) ==
  pub' = [pub EXCEPT ![t] = [pc |-> "lock", ch |-> c, msg |-> 0, idx |-> 1]]

\* with ws_locks[event_type]: the lock is taken.
add_ws_event_lock(t) ==
  /\ pub[t].pc = "lock"
  /\ CanRun(t)
  /\ Acquirable(pub[t].ch, t)
  /\ ws_locks' = [ws_locks EXCEPT ![pub[t].ch] = t]
  /\ pub' = [pub EXCEPT ![t].pc = "iter", ![t].msg = Len(published) + 1]
  /\ published' = Append(published, [ch |-> pub[t].ch, subs |-> Keys(pub[t].ch)])
  /\ calls' = [calls EXCEPT ![t] = IF pub[t].ch = WS_EVENT_INTENT
                                     THEN Append(@, "publish") ELSE @]
  /\ Keep(t)
  /\ UNCHANGED <<pc, ws_queues, pushed, sessVars, lifeVars, notified, seen, resp, result,
                 obsVars>>

\* The channel whose lock task t is about to take, or -1.
WantedLock(t) ==
  IF pub[t].pc = "lock" THEN pub[t].ch
  ELSE IF pub[t].pc = "none" /\ t \in Ws /\ pc[t] \in {"reg", "unreg"} THEN chan[t]
  ELSE -1

\* A greenlet that finds the lock taken (by a thread) waits in the hub.
LockWait(t) ==
  /\ t \in Greenlets
  /\ cur = t
  /\ WantedLock(t) \in Channels
  /\ ~Acquirable(WantedLock(t), t)
  /\ cur' = Hub
  /\ UNCHANGED <<pc, busVars, sessVars, lifeVars, notified, seen, resp, result, calls, obsVars>>

\* (variant: the queues of the other channel are filled)
add_ws_event_put_other(t) ==
  /\ pub[t].pc = "iter"
  /\ CanRun(t)
  /\ pub[t].idx <= Len(ws_queues[1 - pub[t].ch])
  /\ LET c == 1 - pub[t].ch
         i == pub[t].idx
         s == ws_queues[c][i].ws
     IN /\ ws_queues' = [ws_queues EXCEPT ![c][i].q = QueuePut(@, pub[t].msg)]
        /\ pushed' = [pushed EXCEPT ![s] = Append(@, pub[t].msg)]
  /\ pub' = [pub EXCEPT ![t].idx = @ + 1]
  /\ Keep(t)
  /\ UNCHANGED <<pc, ws_locks, published, sessVars, lifeVars, notified, seen, resp, result,
                 calls, obsVars>>

\* (variant: a put that waits for room in the queue)
add_ws_event_put_blocking(t) ==
  /\ pub[t].pc = "iter"
  /\ CanRun(t)
  /\ pub[t].idx <= Len(ws_queues[pub[t].ch])
  /\ LET c == pub[t].ch
         i == pub[t].idx
         s == ws_queues[c][i].ws
     IN /\ ws_queues' = [ws_queues EXCEPT ![c][i].q = QueuePut(@, pub[t].msg)]
        /\ pushed' = [pushed EXCEPT ![s] = Append(@, pub[t].msg)]
  /\ pub' = [pub EXCEPT ![t].idx = @ + 1]
  /\ Yield(t)
  /\ UNCHANGED <<pc, ws_locks, published, sessVars, lifeVars, notified, seen, resp,
                 result, calls, obsVars>>

\* for queue in ws_queues[event_type].values(): queue.put(text)
add_ws_event_put(t) ==
  /\ pub[t].pc = "iter"
  /\ CanRun(t)
  /\ pub[t].idx <= Len(ws_queues[pub[t].ch])
  /\ LET c == pub[t].ch
         i == pub[t].idx
         s == ws_queues[c][i].ws
     IN /\ ws_queues' = [ws_queues EXCEPT ![c][i].q = QueuePut(@, pub[t].msg)]
        /\ pushed' = [pushed EXCEPT ![s] = Append(@, pub[t].msg)]
  /\ pub' = [pub EXCEPT ![t].idx = @ + 1]
  /\ Keep(t)
  /\ UNCHANGED <<pc, ws_locks, published, sessVars, lifeVars, notified, seen, resp, result,
                 calls, obsVars>>

\* The end of the with block: the lock is released.
add_ws_event_unlock(t) ==
  /\ pub[t].pc = "iter"
  /\ CanRun(t)
  /\ pub[t].idx > Len(ws_queues[pub[t].ch])
  /\ ws_locks' = [ws_locks EXCEPT ![pub[t].ch] = NoTask]
  /\ pub' = [pub EXCEPT ![t].pc = "sleep"]
  /\ Keep(t)
  /\ UNCHANGED <<pc, ws_queues, published, pushed, sessVars, lifeVars,
                 notified, seen, resp, result, calls, obsVars>>

\* gevent.sleep(0): a greenlet yields to the loop; add_ws_event returns.
add_ws_event_sleep(t) ==
  /\ pub[t].pc = "sleep"
  /\ CanRun(t)
  /\ pub' = [pub EXCEPT ![t] = NoPub]
  /\ Yield(t)
  /\ UNCHANGED <<pc, ws_queues, ws_locks, published, pushed, sessVars,
                 lifeVars, notified, seen, resp, result, calls, obsVars>>

\* ---- api_events_intent, api_events_log ----
\* A client opens a websocket on the endpoint of channel c.
api_events_connect(s, c) ==
  /\ Serving
  /\ pc[s] = "idle"
  /\ pc' = [pc EXCEPT ![s] = "reg"]
  /\ chan' = [chan EXCEPT ![s] = c]
  /\ conn' = [conn EXCEPT ![s] = "open"]
  /\ UNCHANGED <<cur, busVars, closed, text, sent, lifeVars, notified, seen, resp, result,
                 calls, obsVars>>

\* q = GQueue(); with ws_locks[c]: the lock is taken.
api_events_lock(s) ==
  /\ pc[s] = "reg"
  /\ Ready(s)
  /\ Acquirable(chan[s], s)
  /\ ws_locks' = [ws_locks EXCEPT ![chan[s]] = s]
  /\ pc' = [pc EXCEPT ![s] = "insert"]
  /\ Keep(s)
  /\ UNCHANGED <<ws_queues, pub, published, pushed, sessVars, lifeVars,
                 notified, seen, resp, result, calls, obsVars>>

\* ws_queues[c][ws] = q, and the lock is released.
api_events_insert(s) ==
  /\ pc[s] = "insert"
  /\ Ready(s)
  /\ ws_queues' = [ws_queues EXCEPT ![chan[s]] = Append(@, [ws |-> s, q |-> <<>>])]
  /\ ws_locks' = [ws_locks EXCEPT ![chan[s]] = NoTask]
  /\ pc' = [pc EXCEPT ![s] = "loop"]
  /\ Keep(s)
  /\ UNCHANGED <<pub, published, pushed, sessVars, lifeVars, notified, seen, resp, result,
                 calls, obsVars>>

\* text = q.get() on a queue that holds a text.
api_events_take(s) ==
  /\ text' = [text EXCEPT ![s] = QueueGet(QueueOf(s))]
  /\ ws_queues' = [ws_queues EXCEPT ![chan[s]][IndexOf(chan[s], s)].q = QueueRest(@)]
  /\ pc' = [pc EXCEPT ![s] = "send"]
  /\ Keep(s)

\* while not ws.closed: text = q.get(); an empty queue blocks the greenlet.
api_events_loop(s) ==
  /\ pc[s] = "loop"
  /\ Ready(s)
  /\ IF closed[s]
       THEN /\ pc' = [pc EXCEPT ![s] = "unreg"]
            /\ Keep(s)
            /\ UNCHANGED <<ws_queues, text>>
       ELSE IF QueueOf(s) # <<>>
       THEN api_events_take(s)
       ELSE /\ pc' = [pc EXCEPT ![s] = "get"]
            /\ Yield(s)
            /\ UNCHANGED <<ws_queues, text>>
  /\ UNCHANGED <<ws_locks, pub, published, pushed, chan, conn, closed, sent,
                 lifeVars, notified, seen, resp, result, calls, obsVars>>

\* A put wakes the greenlet blocked in q.get().
api_events_get(s) ==
  /\ pc[s] = "get"
  /\ Ready(s)
  /\ QueueOf(s) # <<>>
  /\ api_events_take(s)
  /\ UNCHANGED <<ws_locks, pub, published, pushed, chan, conn, closed, sent,
                 lifeVars, notified, seen, resp, result, calls, obsVars>>

\* (variant: the exception is published on the intent channel)
api_events_send_logs_intent(s) ==
  /\ pc[s] = "send"
  /\ Ready(s)
  /\ IF conn[s] = "open"
       THEN /\ sent' = [sent EXCEPT ![s] = Append(@, text[s])]
            /\ pc' = [pc EXCEPT ![s] = "loop"]
            /\ text' = [text EXCEPT ![s] = 0]
            /\ Yield(s)
            /\ UNCHANGED <<pub, closed>>
       ELSE /\ closed' = [closed EXCEPT ![s] = TRUE]
            /\ pc' = [pc EXCEPT ![s] = "unreg"]
            /\ add_ws_event(s, WS_EVENT_INTENT)
            /\ Keep(s)
            /\ UNCHANGED <<sent, text>>
  /\ UNCHANGED <<ws_queues, ws_locks, published, pushed, chan, conn, lifeVars,
                 notified, seen, resp, result, calls, obsVars>>

\* ws.send(text); on a dead connection it raises, and the handler logs the exception.
\* The local text keeps the text whose send failed (a text that was sent is not
\* read again and is dropped here).
api_events_send(s) ==
  /\ pc[s] = "send"
  /\ Ready(s)
  /\ IF conn[s] = "open"
       THEN /\ sent' = [sent EXCEPT ![s] = Append(@, text[s])]
            /\ pc' = [pc EXCEPT ![s] = "loop"]
            /\ text' = [text EXCEPT ![s] = 0]
            /\ Yield(s)
            /\ UNCHANGED <<pub, closed>>
       ELSE /\ closed' = [closed EXCEPT ![s] = TRUE]
            /\ pc' = [pc EXCEPT ![s] = "unreg"]
            /\ add_ws_event(s, WS_EVENT_LOG)
            /\ Keep(s)
            /\ UNCHANGED <<sent, text>>
  /\ UNCHANGED <<ws_queues, ws_locks, published, pushed, chan, conn, lifeVars,
                 notified, seen, resp, result, calls, obsVars>>

\* with ws_locks[c]: the lock is taken to remove the queue.
api_events_remove_lock(s) ==
  /\ pc[s] = "unreg"
  /\ Ready(s)
  /\ Acquirable(chan[s], s)
  /\ ws_locks' = [ws_locks EXCEPT ![chan[s]] = s]
  /\ pc' = [pc EXCEPT ![s] = "del"]
  /\ Keep(s)
  /\ UNCHANGED <<ws_queues, pub, published, pushed, sessVars, lifeVars,
                 notified, seen, resp, result, calls, obsVars>>

\* del ws_queues[c][ws], the lock is released and the handler returns.  del
\* raises KeyError for a key that is not in the dict: the with block releases
\* the lock and the handler ends with the exception.
api_events_del(s) ==
  /\ pc[s] = "del"
  /\ Ready(s)
  /\ IF s \in Keys(chan[s])
       THEN /\ ws_queues' = [ws_queues EXCEPT ![chan[s]] = RemoveAt(@, IndexOf(chan[s], s))]
            /\ pc' = [pc EXCEPT ![s] = "done"]
       ELSE /\ ws_queues' = ws_queues
            /\ pc' = [pc EXCEPT ![s] = "KeyError"]
  /\ ws_locks' = [ws_locks EXCEPT ![chan[s]] = NoTask]
  /\ Yield(s)
  /\ UNCHANGED <<pub, published, pushed, sessVars, lifeVars, notified, seen, resp, result,
                 calls, obsVars>>

\* The client goes away; ws.closed may or may not have been set by the library.
client_close(s) ==
  /\ Serving
  /\ conn[s] = "open"
  /\ conn' = [conn EXCEPT ![s] = "gone"]
  /\ \E b \in {closed[s], TRUE} : closed' = [closed EXCEPT ![s] = b]
  /\ UNCHANGED <<pc, cur, busVars, chan, text, sent, lifeVars, notified, seen, resp, result,
                 calls, obsVars>>

\* ---- the intent of an IntentRecognized and its JSON text ----
\* A Python dict: its keys in insertion order and the value of every key.
EmptyDict == [keys |-> <<>>, val |-> <<>>]

\* d.get(k, default)
dict_get(d, k, default) ==
  IF \E i \in 1..Len(d.keys) : d.keys[i] = k THEN d.val[k] ELSE default

\* (variant: a key that is present keeps its value)
dict_setdefault(d, k, v) ==
  IF \E i \in 1..Len(d.keys) : d.keys[i] = k THEN d
  ELSE [keys |-> Append(d.keys, k),
        val |-> [x \in DOMAIN d.val \cup {k} |-> IF x = k THEN v ELSE d.val[x]]]

\* d[k] = v: a new key is added at the end, a present key keeps its place.
dict_set(d, k, v) ==
  [keys |-> IF \E i \in 1..Len(d.keys) : d.keys[i] = k THEN d.keys ELSE Append(d.keys, k),
   val |-> [x \in DOMAIN d.val \cup {k} |-> IF x = k THEN v ELSE d.val[x]]]

\* intent_slots = {}; for ev in entities: intent_slots[ev["entity"]] = ev["value"]
RECURSIVE intent_slots_loop(_, _)
intent_slots_loop(entities, slots) ==
  IF entities = <<>> THEN slots
  ELSE intent_slots_loop(Tail(entities),
                         dict_set(slots, Head(entities).entity, Head(entities).value))

intent_slots(entities) == intent_slots_loop(entities, EmptyDict)

\* The members of a JSON object, in the order of the dict's keys.
json_object(d) == [i \in 1..Len(d.keys) |-> <<d.keys[i], d.val[d.keys[i]]>>]

\* The JSON value of the field k of an intent.
json_value(k, v) ==
  IF k = "slots" THEN json_object(v)
  ELSE IF k = "entities"
    THEN [i \in 1..Len(v) |-> <<<<"entity", v[i].entity>>, <<"value", v[i].value>>>>]
  ELSE v

\* json.dumps(message.intent)
json_dumps(d) ==
  [i \in 1..Len(d.keys) |-> <<d.keys[i], json_value(d.keys[i], d.val[d.keys[i]])>>]

NoJson == <<>>

\* The intents the engine reports: a text, and entities and slots or neither.
Names == {"name", "state"}
Values == {"lamp", "on"}
Entities == [entity : Names, value : Values]
EntityLists == UNION {[1..n -> Entities] : n \in 0..MaxEntities}
Fields == {"text", "entities", "slots"}
KeySeqs ==
  {ks \in UNION {[1..n -> Fields] : n \in 0..Cardinality(Fields)} :
     \A i, j \in 1..Len(ks) : i # j => ks[i] # ks[j]}
OldSlots == {EmptyDict, dict_set(EmptyDict, "room", "hall")}
Intents ==
  {[keys |-> ks,
    val |-> [k \in {ks[i] : i \in 1..Len(ks)} |->
               IF k = "text" THEN "switch" ELSE IF k = "slots" THEN sl ELSE en]] :
     ks \in KeySeqs, sl \in OldSlots, en \in EntityLists}

AnIntent == dict_set(dict_set(EmptyDict, "text", "switch"), "entities", <<>>)

\* ---- WebSocketObserver.in_started ----
\* The engine sends the observer a message; an IntentRecognized is logged as JSON.
in_started(o, isIntent) ==
  /\ CanRun(o)
  /\ pc[o] = "idle"
  /\ notified[o] < MaxNotify
  /\ \E e \in Engines : eng[e] = "started"
  /\ notified' = [notified EXCEPT ![o] = @ + 1]
  /\ IF isIntent
       THEN /\ pc' = [pc EXCEPT ![o] = "log"]
            /\ message' = [message EXCEPT ![o] =
                 dict_set(@, "slots", intent_slots(dict_get(@, "entities", <<>>)))]
            /\ intent_json' = [intent_json EXCEPT ![o] = json_dumps(message'[o])]
            /\ add_ws_event(o, WS_EVENT_LOG)
            /\ calls' = [calls EXCEPT ![o] = Append(@, "intent")]
       ELSE /\ calls' = [calls EXCEPT ![o] = @ \o <<"other", "return">>]
            /\ UNCHANGED <<pc, pub, obsVars>>
  /\ Keep(o)
  /\ UNCHANGED <<ws_queues, ws_locks, published, pushed, sessVars, lifeVars, seen,
                 resp, result>>

\* (variant: the intent is published on the log channel)
in_started_publish_log(o) ==
  /\ pc[o] = "log"
  /\ CanRun(o)
  /\ pub[o].pc = "none"
  /\ pc' = [pc EXCEPT ![o] = "ping"]
  /\ add_ws_event(o, WS_EVENT_LOG)
  /\ Keep(o)
  /\ UNCHANGED <<ws_queues, ws_locks, published, pushed, sessVars, lifeVars,
                 notified, seen, resp, result, calls, obsVars>>

\* add_ws_event(WS_EVENT_INTENT, intent_json)
in_started_publish(o) ==
  /\ pc[o] = "log"
  /\ CanRun(o)
  /\ pub[o].pc = "none"
  /\ pc' = [pc EXCEPT ![o] = "ping"]
  /\ add_ws_event(o, WS_EVENT_INTENT)
  /\ Keep(o)
  /\ UNCHANGED <<ws_queues, ws_locks, published, pushed, sessVars, lifeVars,
                 notified, seen, resp, result, calls, obsVars>>

\* requests.get(.../api/ping) is sent: a blocking call of the unpatched requests
\* library, without a timeout; the calling operating-system thread waits in it.
in_started_get(o) ==
  /\ pc[o] = "ping"
  /\ CanRun(o)
  /\ pub[o].pc = "none"
  /\ pc' = [pc EXCEPT ![o] = "wait"]
  /\ calls' = [calls EXCEPT ![o] = Append(@, "bridge")]
  /\ Keep(o)
  /\ UNCHANGED <<busVars, sessVars, lifeVars, notified, seen, resp, result, obsVars>>

\* The gevent loop serves api_ping, which returns "pong": requests.get returns.
in_started_ping(o) ==
  /\ pc[o] = "wait"
  /\ pub[o].pc = "none"
  /\ Serving
  /\ cur = Hub
  /\ pc' = [pc EXCEPT ![o] = "idle"]
  /\ calls' = [calls EXCEPT ![o] = Append(@, "return")]
  /\ UNCHANGED <<cur, busVars, sessVars, lifeVars, notified, seen, resp, result, obsVars>>

\* str(err) of the AssertionError of a bare assert statement: the empty string.
AssertionError == <<>>

\* ---- api_start_recording ----
\* assert core is not None; core.start_recording_wav(buffer_name); return "OK"
\* A failed assertion goes to handle_error, which logs it.
api_start_recording(h) ==
  /\ pc[h] = "idle"
  /\ Ready(h)
  /\ IF core = None
       THEN /\ seen' = [seen EXCEPT ![h] = "null"]
            /\ pc' = [pc EXCEPT ![h] = "error"]
            /\ resp' = [resp EXCEPT ![h] = [status |-> 0, body |-> AssertionError]]
            /\ add_ws_event(h, WS_EVENT_LOG)
            /\ Keep(h)
       ELSE /\ seen' = [seen EXCEPT ![h] = eng[core]]
            /\ pc' = [pc EXCEPT ![h] = "done"]
            /\ resp' = [resp EXCEPT ![h] = [status |-> 200, body |-> <<"OK">>]]
            /\ Yield(h)
            /\ UNCHANGED pub
  /\ UNCHANGED <<ws_queues, ws_locks, published, pushed, sessVars, lifeVars, notified,
                 result, calls, obsVars>>

\* ---- api_text_to_intent ----
\* assert core is not None; intent = core.recognize_intent(text).intent, which may
\* raise; logger.debug(intent_json). An exception goes to handle_error, which logs it.
api_text_to_intent(h, recognized) ==
  /\ pc[h] = "idle"
  /\ Ready(h)
  /\ IF core = None
       THEN /\ seen' = [seen EXCEPT ![h] = "null"]
            /\ pc' = [pc EXCEPT ![h] = "error"]
            /\ resp' = [resp EXCEPT ![h] = [status |-> 0, body |-> AssertionError]]
            /\ UNCHANGED calls
       ELSE IF ~recognized
       THEN /\ seen' = [seen EXCEPT ![h] = eng[core]]
            /\ pc' = [pc EXCEPT ![h] = "error"]
            /\ resp' = [resp EXCEPT ![h] = [status |-> 0, body |-> <<"recognize_intent">>]]
            /\ UNCHANGED calls
       ELSE /\ seen' = [seen EXCEPT ![h] = eng[core]]
            /\ pc' = [pc EXCEPT ![h] = "publish"]
            /\ calls' = [calls EXCEPT ![h] = Append(@, "recognized")]
            /\ UNCHANGED resp
  /\ add_ws_event(h, WS_EVENT_LOG)
  /\ Keep(h)
  /\ UNCHANGED <<ws_queues, ws_locks, published, pushed, sessVars, lifeVars, notified,
                 result, obsVars>>

\* (variant: the intent is not published)
api_text_to_intent_publish_skipped(h) ==
  /\ pc[h] = "publish"
  /\ Ready(h)
  /\ pc' = [pc EXCEPT ![h] = "handle"]
  /\ Keep(h)
  /\ UNCHANGED <<busVars, sessVars, lifeVars, notified, seen, resp, result, calls, obsVars>>

\* add_ws_event(WS_EVENT_INTENT, intent_json)
api_text_to_intent_publish(h) ==
  /\ pc[h] = "publish"
  /\ Ready(h)
  /\ pc' = [pc EXCEPT ![h] = "handle"]
  /\ add_ws_event(h, WS_EVENT_INTENT)
  /\ Keep(h)
  /\ UNCHANGED <<ws_queues, ws_locks, published, pushed, sessVars, lifeVars,
                 notified, seen, resp, result, calls, obsVars>>

\* if not no_hass: core.handle_intent(intent), which may raise; handle_error logs it.
api_text_to_intent_handle(h, no_hass, raises) ==
  /\ pc[h] = "handle"
  /\ Ready(h)
  /\ IF ~no_hass /\ (raises \/ core = None)
       THEN /\ pc' = [pc EXCEPT ![h] = "error"]
            /\ resp' = [resp EXCEPT ![h] = [status |-> 0, body |-> <<"handle_intent">>]]
            /\ calls' = [calls EXCEPT ![h] = @ \o <<"handle", "error">>]
            /\ add_ws_event(h, WS_EVENT_LOG)
            /\ Keep(h)
       ELSE /\ pc' = [pc EXCEPT ![h] = "done"]
            /\ resp' = [resp EXCEPT ![h] = [status |-> 200, body |-> <<"intent">>]]
            /\ calls' = [calls EXCEPT ![h] =
                 @ \o (IF no_hass THEN <<"return">> ELSE <<"handle", "return">>)]
            /\ Yield(h)
            /\ UNCHANGED pub
  /\ UNCHANGED <<ws_queues, ws_locks, published, pushed, sessVars, lifeVars,
                 notified, seen, result, obsVars>>

\* ---- api_speech_to_intent ----
\* assert core is not None; core.transcribe_wav(wav_data), which may raise;
\* logger.debug(text)
api_speech_to_intent(h, transcribed) ==
  /\ pc[h] = "idle"
  /\ Ready(h)
  /\ IF core = None
       THEN /\ seen' = [seen EXCEPT ![h] = "null"]
            /\ pc' = [pc EXCEPT ![h] = "error"]
            /\ resp' = [resp EXCEPT ![h] = [status |-> 0, body |-> AssertionError]]
       ELSE IF ~transcribed
       THEN /\ seen' = [seen EXCEPT ![h] = eng[core]]
            /\ pc' = [pc EXCEPT ![h] = "error"]
            /\ resp' = [resp EXCEPT ![h] = [status |-> 0, body |-> <<"transcribe_wav">>]]
       ELSE /\ seen' = [seen EXCEPT ![h] = eng[core]]
            /\ pc' = [pc EXCEPT ![h] = "recognize"]
            /\ UNCHANGED resp
  /\ add_ws_event(h, WS_EVENT_LOG)
  /\ Keep(h)
  /\ UNCHANGED <<ws_queues, ws_locks, published, pushed, sessVars, lifeVars, notified,
                 result, calls, obsVars>>

\* intent = core.recognize_intent(text).intent, which may raise (also because a
\* restart has set core to None meanwhile); logger.debug(intent_json)
recognize_intent(h, recognized) ==
  /\ pc[h] = "recognize"
  /\ Ready(h)
  /\ IF recognized /\ core # None
       THEN /\ pc' = [pc EXCEPT ![h] = "publish"]
            /\ calls' = [calls EXCEPT ![h] = Append(@, "recognized")]
            /\ UNCHANGED resp
       ELSE /\ pc' = [pc EXCEPT ![h] = "error"]
            /\ resp' = [resp EXCEPT ![h] = [status |-> 0, body |-> <<"recognize_intent">>]]
            /\ UNCHANGED calls
  /\ add_ws_event(h, WS_EVENT_LOG)
  /\ Keep(h)
  /\ UNCHANGED <<ws_queues, ws_locks, published, pushed, sessVars, lifeVars, notified,
                 seen, result, obsVars>>

api_speech_to_intent_recognize(h, recognized) == recognize_intent(h, recognized)

api_speech_to_intent_publish(h) == api_text_to_intent_publish(h)

api_speech_to_intent_handle(h, no_hass, raises) ==
  api_text_to_intent_handle(h, no_hass, raises)

\* ---- api_stop_recording ----
\* assert core is not None; core.stop_recording_wav(buffer_name), which may raise;
\* logger.debug("Recorded ... byte(s) of audio data")
api_stop_recording(h, stopped) ==
  /\ pc[h] = "idle"
  /\ Ready(h)
  /\ IF core = None
       THEN /\ seen' = [seen EXCEPT ![h] = "null"]
            /\ pc' = [pc EXCEPT ![h] = "error"]
            /\ resp' = [resp EXCEPT ![h] = [status |-> 0, body |-> AssertionError]]
       ELSE IF ~stopped
       THEN /\ seen' = [seen EXCEPT ![h] = eng[core]]
            /\ pc' = [pc EXCEPT ![h] = "error"]
            /\ resp' = [resp EXCEPT ![h] =
                 [status |-> 0, body |-> <<"stop_recording_wav">>]]
       ELSE /\ seen' = [seen EXCEPT ![h] = eng[core]]
            /\ pc' = [pc EXCEPT ![h] = "transcribe"]
            /\ UNCHANGED resp
  /\ add_ws_event(h, WS_EVENT_LOG)
  /\ Keep(h)
  /\ UNCHANGED <<ws_queues, ws_locks, published, pushed, sessVars, lifeVars, notified,
                 result, calls, obsVars>>

\* core.transcribe_wav(wav_data), which may raise; logger.debug(text)
api_stop_recording_transcribe(h, transcribed) ==
  /\ pc[h] = "transcribe"
  /\ Ready(h)
  /\ IF transcribed /\ core # None
       THEN /\ pc' = [pc EXCEPT ![h] = "recognize"]
            /\ UNCHANGED resp
       ELSE /\ pc' = [pc EXCEPT ![h] = "error"]
            /\ resp' = [resp EXCEPT ![h] = [status |-> 0, body |-> <<"transcribe_wav">>]]
  /\ add_ws_event(h, WS_EVENT_LOG)
  /\ Keep(h)
  /\ UNCHANGED <<ws_queues, ws_locks, published, pushed, sessVars, lifeVars, notified,
                 seen, result, calls, obsVars>>

api_stop_recording_recognize(h, recognized) == recognize_intent(h, recognized)

api_stop_recording_publish(h) == api_text_to_intent_publish(h)

api_stop_recording_handle(h, no_hass, raises) ==
  api_text_to_intent_handle(h, no_hass, raises)

\* handle_error has logged the exception and returns (str(err), 500).
handle_error(h) ==
  /\ pc[h] = "error"
  /\ Ready(h)
  /\ pc' = [pc EXCEPT ![h] = "failed"]
  /\ resp' = [resp EXCEPT ![h] = [status |-> 500, body |-> resp[h].body]]
  /\ Yield(h)
  /\ UNCHANGED <<busVars, sessVars, lifeVars, notified, seen, result, calls, obsVars>>

\* ---- api_train ----
\* The reasons a ProfileTrainingFailed may carry, as sequences of words.
Reasons == {<<"missing", "sentences", "file">>, <<"no", "intents">>, <<>>}

\* What core.train returns: ProfileTrainingFailed(reason) or another message.
TrainResults ==
  {[type |-> "ProfileTrainingFailed", reason |-> r] : r \in Reasons}
    \cup {[type |-> "ProfileTrainingComplete", reason |-> <<>>]}

\* end_time - start_time, in hundredths of a second.
Seconds == {0, 150}

\* "%0.2f" % seconds
Format2f(hundredths) == [int |-> hundredths \div 100, frac |-> hundredths % 100]

\* (variant: the reason is left out of the exception)
TrainingFailedNoReason(reason) == <<"Training", "failed">>

\* f"Training failed: {result.reason}"
TrainingFailed(reason) == <<"Training", "failed:">> \o reason

\* "Training completed in %0.2f second(s)" % (end_time - start_time)
TrainingCompleted(hundredths) ==
  <<"Training", "completed", "in", Format2f(hundredths), "second(s)">>

\* assert core is not None; if no_cache and the doit database exists:
\* logger.debug("Clearing training cache"); else logger.info("Starting training")
api_train(h, clear) ==
  /\ pc[h] = "idle"
  /\ Ready(h)
  /\ IF core = None
       THEN /\ pc' = [pc EXCEPT ![h] = "error"]
            /\ resp' = [resp EXCEPT ![h] = [status |-> 0, body |-> AssertionError]]
       ELSE /\ pc' = [pc EXCEPT ![h] = IF clear THEN "cleared" ELSE "spawn"]
            /\ UNCHANGED resp
  /\ add_ws_event(h, WS_EVENT_LOG)
  /\ Keep(h)
  /\ UNCHANGED <<ws_queues, ws_locks, published, pushed, sessVars, lifeVars, notified,
                 seen, result, calls, obsVars>>

\* os.unlink(db_path); logger.info("Starting training")
api_train_info(h) ==
  /\ pc[h] = "cleared"
  /\ Ready(h)
  /\ pc' = [pc EXCEPT ![h] = "spawn"]
  /\ add_ws_event(h, WS_EVENT_LOG)
  /\ Keep(h)
  /\ UNCHANGED <<ws_queues, ws_locks, published, pushed, sessVars, lifeVars, notified,
                 seen, resp, result, calls, obsVars>>

\* gevent.spawn(core.train).get(): the handler waits for the greenlet of the job.
api_train_spawn(h) ==
  /\ pc[h] = "spawn"
  /\ Ready(h)
  /\ pc' = [pc EXCEPT ![h] = "wait"]
  /\ Yield(h)
  /\ UNCHANGED <<busVars, sessVars, lifeVars, notified, seen, resp, result, calls, obsVars>>

\* The job has returned r: a ProfileTrainingFailed is raised as an Exception,
\* which handle_error logs; anything else gives the completion message.
api_train_result(h, r, seconds) ==
  /\ pc[h] = "wait"
  /\ Ready(h)
  /\ IF r.type = "ProfileTrainingFailed"
       THEN /\ pc' = [pc EXCEPT ![h] = "error"]
            /\ resp' = [resp EXCEPT ![h] =
                          [status |-> 0, body |-> TrainingFailed(r.reason)]]
            /\ add_ws_event(h, WS_EVENT_LOG)
            /\ Keep(h)
       ELSE /\ pc' = [pc EXCEPT ![h] = "done"]
            /\ resp' = [resp EXCEPT ![h] =
                          [status |-> 200, body |-> TrainingCompleted(seconds)]]
            /\ Yield(h)
            /\ UNCHANGED pub
  /\ result' = [result EXCEPT ![h] = r]
  /\ UNCHANGED <<ws_queues, ws_locks, published, pushed, sessVars, lifeVars, notified,
                 seen, calls, obsVars>>

\* ---- start_rhasspy ----
start_rhasspy(t) == start' = [start EXCEPT ![t] = [pc |-> "construct", idx |-> 0]]

\* The engine that RhasspyCore(...) constructs next.
NewEngine == CHOOSE e \in Engines : eng[e] = "absent" /\ \A f \in 1..(e - 1) : eng[f] # "absent"

\* (variant: the restart also re-creates the queue dicts)
start_rhasspy_construct_resets_queues(t, ok) ==
  /\ start[t].pc = "construct"
  /\ CanRun(t)
  /\ \E e \in Engines : eng[e] = "absent"
  /\ IF ok
       THEN /\ eng' = [eng EXCEPT ![NewEngine] = "created"]
            /\ core' = NewEngine
            /\ start' = [start EXCEPT ![t].pc = "settings"]
       ELSE /\ start' = [start EXCEPT ![t].pc = "raised"]
            /\ UNCHANGED <<core, eng>>
  /\ Keep(t)
  /\ ws_queues' = [c \in Channels |-> <<>>]
  /\ UNCHANGED <<pc, ws_locks, pub, published, pushed, sessVars, stops, nset,
                 notified, seen, resp, result, calls, obsVars>>

\* system = ActorSystem(); core = RhasspyCore(...): the global is assigned here.
\* The constructor may raise, and then core keeps its value.
start_rhasspy_construct(t, ok) ==
  /\ start[t].pc = "construct"
  /\ CanRun(t)
  /\ \E e \in Engines : eng[e] = "absent"
  /\ IF ok
       THEN /\ eng' = [eng EXCEPT ![NewEngine] = "created"]
            /\ core' = NewEngine
            /\ start' = [start EXCEPT ![t].pc = "settings"]
       ELSE /\ start' = [start EXCEPT ![t].pc = "raised"]
            /\ UNCHANGED <<core, eng>>
  /\ Keep(t)
  /\ UNCHANGED <<pc, busVars, sessVars, stops, nset, notified, seen, resp, result, calls, obsVars>>

\* for key, value in args.set: logger.debug(...); core.profile.set(key, value)
start_rhasspy_setting(t) ==
  /\ start[t].pc = "settings"
  /\ CanRun(t)
  /\ pub[t].pc = "none"
  /\ start[t].idx < nset
  /\ start' = [start EXCEPT ![t].idx = @ + 1]
  /\ add_ws_event(t, WS_EVENT_LOG)
  /\ Keep(t)
  /\ UNCHANGED <<pc, ws_queues, ws_locks, published, pushed, sessVars, core, eng,
                 stops, nset, notified, seen, resp, result, calls, obsVars>>

\* observer = system.createActor(...); core.start(observer=observer) on the engine
\* the global core names now; logger.info("Started").  core.start may raise.
start_rhasspy_start(t, ok) ==
  /\ start[t].pc = "settings"
  /\ CanRun(t)
  /\ pub[t].pc = "none"
  /\ start[t].idx = nset
  /\ core # None
  /\ IF ok
       THEN /\ eng' = [eng EXCEPT ![core] = "started"]
            /\ start' = [start EXCEPT ![t].pc = "logged"]
            /\ add_ws_event(t, WS_EVENT_LOG)
       ELSE /\ eng' = [eng EXCEPT ![core] = "failed"]
            /\ start' = [start EXCEPT ![t].pc = "raised"]
            /\ UNCHANGED pub
  /\ Keep(t)
  /\ UNCHANGED <<pc, ws_queues, ws_locks, published, pushed, sessVars, core,
                 stops, nset, notified, seen, resp, result, calls, obsVars>>

\* start_rhasspy returns.
start_rhasspy_return(t) ==
  /\ start[t].pc = "logged"
  /\ CanRun(t)
  /\ pub[t].pc = "none"
  /\ start' = [start EXCEPT ![t] = NoStart]
  /\ Keep(t)
  /\ UNCHANGED <<pc, busVars, sessVars, core, eng, stops, nset, notified, seen, resp,
                 result, calls, obsVars>>

\* ---- core.shutdown(): the stop sequence of the engine ----
\* It runs on engine e and either completes or raises part way.
\* (variant: the engine is not stopped)
core_shutdown_skipped(e, ok) ==
  /\ eng' = eng
  /\ stops' = stops

core_shutdown(e, ok) ==
  /\ eng' = [eng EXCEPT ![e] = IF ok THEN "stopped" ELSE "failed"]
  /\ stops' = [stops EXCEPT ![e] = @ + 1]

\* ---- the module body: start_rhasspy(), the web server, the exit handler ----
\* start_rhasspy() has returned; logger.debug("Starting web server ...")
MainListen ==
  /\ pc[Main] = "boot"
  /\ start[Main].pc = "none"
  /\ pc' = [pc EXCEPT ![Main] = "listen"]
  /\ add_ws_event(Main, WS_EVENT_LOG)
  /\ Keep(Main)
  /\ UNCHANGED <<ws_queues, ws_locks, published, pushed, sessVars, lifeVars,
                 notified, seen, resp, result, calls, obsVars>>

\* server.serve_forever(): the gevent loop runs the handlers.
MainServe ==
  /\ pc[Main] = "listen"
  /\ pub[Main].pc = "none"
  /\ pc' = [pc EXCEPT ![Main] = "serving"]
  /\ cur' = Hub
  /\ UNCHANGED <<busVars, sessVars, lifeVars, notified, seen, resp, result, calls, obsVars>>

\* start_rhasspy() raised at line 939: the interpreter exits.
MainBootRaised ==
  /\ pc[Main] = "boot"
  /\ start[Main].pc = "raised"
  /\ pc' = [pc EXCEPT ![Main] = "exiting"]
  /\ start' = [start EXCEPT ![Main] = NoStart]
  /\ cur' = Main
  /\ UNCHANGED <<busVars, sessVars, core, eng, stops, nset, notified, seen, resp, result,
                 calls, obsVars>>

\* KeyboardInterrupt ends serve_forever, whatever the greenlets are doing.  It is
\* raised in the greenlet that holds the main thread: a handler is unwound by it
\* (it is no Exception, so no except clause of a handler catches it; a with
\* block releases its lock) and gevent raises it again in the main greenlet.
Interrupt ==
  /\ pc[Main] = "serving"
  /\ pc' = [t \in Tasks |-> IF t = Main THEN "exiting"
                            ELSE IF t = cur THEN "killed" ELSE pc[t]]
  /\ pub' = [t \in Tasks |-> IF t = cur THEN NoPub ELSE pub[t]]
  /\ ws_locks' = [c \in Channels |-> IF ws_locks[c] = cur THEN NoTask ELSE ws_locks[c]]
  /\ cur' = Main
  /\ UNCHANGED <<ws_queues, published, pushed, sessVars, lifeVars, notified, seen, resp,
                 result, calls, obsVars>>

\* SIGTERM (or SIGKILL): no handler is installed for it, so the process ends at
\* once and runs no exit handler.
Terminate ==
  /\ Alive
  /\ pc' = [pc EXCEPT ![Main] = "terminated"]
  /\ UNCHANGED <<cur, busVars, sessVars, lifeVars, notified, seen, resp, result, calls, obsVars>>

\* @atexit.register shutdown(): if core is not None: core.shutdown(); core = None
shutdown(ok) ==
  /\ pc[Main] = "exiting"
  /\ pc' = [pc EXCEPT ![Main] = "exited"]
  /\ IF core # None
       THEN /\ core_shutdown(core, ok)
            /\ core' = IF ok THEN None ELSE core
       ELSE UNCHANGED <<core, eng, stops>>
  /\ UNCHANGED <<cur, busVars, sessVars, start, nset, notified, seen, resp, result, calls, obsVars>>

\* ---- api_restart ----
\* assert core is not None; logger.debug("Restarting Rhasspy")
api_restart(r) ==
  /\ pc[r] = "idle"
  /\ Ready(r)
  /\ pc' = [pc EXCEPT ![r] = IF core = None THEN "error" ELSE "stop"]
  /\ add_ws_event(r, WS_EVENT_LOG)
  /\ Keep(r)
  /\ UNCHANGED <<ws_queues, ws_locks, published, pushed, sessVars, lifeVars,
                 notified, seen, resp, result, calls, obsVars>>

\* core.shutdown(), then the call of start_rhasspy(); a raise goes to handle_error.
api_restart_stop(r, ok) ==
  /\ pc[r] = "stop"
  /\ Ready(r)
  /\ core # None
  /\ core_shutdown(core, ok)
  /\ IF ok
       THEN /\ start_rhasspy(r)
            /\ pc' = [pc EXCEPT ![r] = "starting"]
            /\ UNCHANGED pub
       ELSE /\ pc' = [pc EXCEPT ![r] = "error"]
            /\ add_ws_event(r, WS_EVENT_LOG)
            /\ UNCHANGED start
  /\ Keep(r)
  /\ UNCHANGED <<ws_queues, ws_locks, published, pushed, sessVars, core, nset,
                 notified, seen, resp, result, calls, obsVars>>

\* start_rhasspy() returned: logger.info("Restarted Rhasspy")
api_restart_started(r) ==
  /\ pc[r] = "starting"
  /\ Ready(r)
  /\ pc' = [pc EXCEPT ![r] = "return"]
  /\ add_ws_event(r, WS_EVENT_LOG)
  /\ Keep(r)
  /\ UNCHANGED <<ws_queues, ws_locks, published, pushed, sessVars, lifeVars,
                 notified, seen, resp, result, calls, obsVars>>

\* start_rhasspy() raised: handle_error logs the exception.
api_restart_raised(r) ==
  /\ pc[r] = "starting"
  /\ Serving
  /\ CanRun(r)
  /\ start[r].pc = "raised"
  /\ start' = [start EXCEPT ![r] = NoStart]
  /\ pc' = [pc EXCEPT ![r] = "error"]
  /\ add_ws_event(r, WS_EVENT_LOG)
  /\ Keep(r)
  /\ UNCHANGED <<ws_queues, ws_locks, published, pushed, sessVars, core, eng,
                 stops, nset, notified, seen, resp, result, calls, obsVars>>

\* return "Restarted Rhasspy"
api_restart_return(r) ==
  /\ pc[r] = "return"
  /\ Ready(r)
  /\ pc' = [pc EXCEPT ![r] = "done"]
  /\ Yield(r)
  /\ UNCHANGED <<busVars, sessVars, lifeVars, notified, seen, resp, result, calls, obsVars>>

\* handle_error returns (str(err), 500)
api_restart_error(r) ==
  /\ pc[r] = "error"
  /\ Ready(r)
  /\ pc' = [pc EXCEPT ![r] = "failed"]
  /\ Yield(r)
  /\ UNCHANGED <<busVars, sessVars, lifeVars, notified, seen, resp, result, calls, obsVars>>

\* ---- initial states ----
InitCommon ==
  /\ ws_queues = [c \in Channels |-> <<>>]
  /\ ws_locks = [c \in Channels |-> NoTask]
  /\ pub = [t \in Tasks |-> NoPub]
  /\ chan = [s \in Ws |-> WS_EVENT_INTENT]
  /\ conn = [s \in Ws |-> "none"]
  /\ closed = [s \in Ws |-> FALSE]
  /\ text = [s \in Ws |-> 0]
  /\ stops = [e \in Engines |-> 0]
  /\ notified = [o \in Observers \cup Callbacks |-> 0]
  /\ published = <<>>
  /\ pushed = [s \in Ws |-> <<>>]
  /\ sent = [s \in Ws |-> <<>>]
  /\ seen = [h \in Requests \cup Recorders \cup SpeechRequests \cup StopRequests |-> "none"]
  /\ resp = [h \in Requests \cup Recorders \cup Trainers \cup SpeechRequests
                    \cup StopRequests |-> NoResp]
  /\ result = [h \in Trainers |-> NoResult]
  /\ calls = [t \in Tasks |-> <<>>]
  /\ intent_json = [o \in Observers \cup Callbacks |-> NoJson]

\* The module body is about to call start_rhasspy() (line 939).
Init ==
  /\ InitCommon
  /\ pc = [t \in Tasks |-> IF t = Main THEN "boot" ELSE "idle"]
  /\ cur = Main
  /\ core = None
  /\ nset \in 0..MaxSettings
  /\ eng = [e \in Engines |-> "absent"]
  /\ start = [t \in Starters |-> IF t = Main THEN [pc |-> "construct", idx |-> 0]
                                               ELSE NoStart]
  /\ message = [o \in Observers \cup Callbacks |-> AnIntent]

\* The engine is started and the web server is serving.
InitServing ==
  /\ InitCommon
  /\ pc = [t \in Tasks |-> IF t = Main THEN "serving" ELSE "idle"]
  /\ cur = Hub
  /\ core = 1
  /\ nset \in 0..MaxSettings
  /\ eng = [e \in Engines |-> IF e = 1 THEN "started" ELSE "absent"]
  /\ start = [t \in Starters |-> NoStart]
  /\ message = [o \in Observers \cup Callbacks |-> AnIntent]

\* ---- next-state relations ----
add_ws_event_step(t) ==
  \/ add_ws_event_lock(t)
  \/ add_ws_event_put(t)
  \/ add_ws_event_unlock(t)
  \/ add_ws_event_sleep(t)

api_events_step(s) ==
  \/ \E c \in Channels : api_events_connect(s, c)
  \/ api_events_lock(s)
  \/ api_events_insert(s)
  \/ api_events_loop(s)
  \/ api_events_get(s)
  \/ api_events_send(s)
  \/ api_events_remove_lock(s)
  \/ api_events_del(s)
  \/ client_close(s)

in_started_step(o) ==
  \/ \E isIntent \in BOOLEAN : in_started(o, isIntent)
  \/ in_started_publish(o)
  \/ in_started_get(o)
  \/ in_started_ping(o)

api_text_to_intent_step(h) ==
  \/ \E recognized \in BOOLEAN : api_text_to_intent(h, recognized)
  \/ api_text_to_intent_publish(h)
  \/ \E no_hass, raises \in BOOLEAN : api_text_to_intent_handle(h, no_hass, raises)
  \/ handle_error(h)

api_speech_to_intent_step(h) ==
  \/ \E transcribed \in BOOLEAN : api_speech_to_intent(h, transcribed)
  \/ \E recognized \in BOOLEAN : api_speech_to_intent_recognize(h, recognized)
  \/ api_speech_to_intent_publish(h)
  \/ \E no_hass, raises \in BOOLEAN : api_speech_to_intent_handle(h, no_hass, raises)
  \/ handle_error(h)

api_stop_recording_step(h) ==
  \/ \E stopped \in BOOLEAN : api_stop_recording(h, stopped)
  \/ \E transcribed \in BOOLEAN : api_stop_recording_transcribe(h, transcribed)
  \/ \E recognized \in BOOLEAN : api_stop_recording_recognize(h, recognized)
  \/ api_stop_recording_publish(h)
  \/ \E no_hass, raises \in BOOLEAN : api_stop_recording_handle(h, no_hass, raises)
  \/ handle_error(h)

start_rhasspy_step(t) ==
  \/ \E ok \in BOOLEAN : start_rhasspy_construct(t, ok)
  \/ start_rhasspy_setting(t)
  \/ \E ok \in BOOLEAN : start_rhasspy_start(t, ok)
  \/ start_rhasspy_return(t)

MainStep ==
  \/ MainListen
  \/ MainServe
  \/ MainBootRaised
  \/ Interrupt
  \/ Terminate
  \/ \E ok \in BOOLEAN : shutdown(ok)

api_restart_step(r) ==
  \/ api_restart(r)
  \/ \E ok \in BOOLEAN : api_restart_stop(r, ok)
  \/ api_restart_started(r)
  \/ api_restart_raised(r)
  \/ api_restart_return(r)
  \/ api_restart_error(r)

\* The event bus while the engine runs: websockets, the observer, a request.
BusNext ==
  \/ \E t \in Ws \cup Observers : add_ws_event_step(t)
  \/ \E t \in Ws : LockWait(t)
  \/ \E s \in Ws : api_events_step(s)
  \/ \E o \in Observers : in_started_step(o)

BusInit == InitServing /\ nset = 0

BusSpec == BusInit /\ [][BusNext]_vars

\* The event bus until the process is interrupted and runs its exit handler.
BusExitNext ==
  \/ BusNext
  \/ Interrupt
  \/ \E ok \in BOOLEAN : shutdown(ok)

BusExitSpec == BusInit /\ [][BusExitNext]_vars

\* The life cycle of the engine: boot, restarts, a request that reads core, exit.
Next ==
  \/ MainStep
  \/ \E t \in Starters : start_rhasspy_step(t)
  \/ \E r \in Restarts : api_restart_step(r)
  \/ \E t \in Starters : add_ws_event_lock(t) \/ add_ws_event_unlock(t) \/ add_ws_event_sleep(t)
  \/ \E h \in Recorders : api_start_recording(h)

Spec == Init /\ [][Next]_vars

\* Restarts while a websocket is open.
RestartWs == {<<"ws", 1>>}

RestartBusNext ==
  \/ \E t \in Restarts : start_rhasspy_step(t)
  \/ \E r \in Restarts : api_restart_step(r)
  \/ \E t \in Restarts \cup RestartWs : add_ws_event_step(t)
  \/ \E s \in RestartWs : api_events_step(s)

RestartBusSpec == InitServing /\ [][RestartBusNext]_vars

\* The unsubscribe of the handlers on its own: every handler is about to remove
\* its queue (lines 913-915, 932-934) from a dict that holds it or does not.
UnsubscribeInit ==
  /\ pc = [t \in Tasks |-> IF t = Main THEN "serving"
                            ELSE IF t \in Ws THEN "unreg" ELSE "idle"]
  /\ cur = Hub
  /\ chan \in [Ws -> Channels]
  /\ \E keys \in [Channels -> UNION {[1..n -> Ws] : n \in 0..NumSessions}] :
       /\ \A c \in Channels : \A i, j \in 1..Len(keys[c]) :
            (i # j => keys[c][i] # keys[c][j]) /\ chan[keys[c][i]] = c
       /\ ws_queues = [c \in Channels |->
                         [i \in 1..Len(keys[c]) |-> [ws |-> keys[c][i], q |-> <<>>]]]
  /\ ws_locks = [c \in Channels |-> NoTask]
  /\ pub = [t \in Tasks |-> NoPub]
  /\ conn = [s \in Ws |-> "gone"]
  /\ closed = [s \in Ws |-> TRUE]
  /\ text = [s \in Ws |-> 0]
  /\ core = 1
  /\ eng = [e \in Engines |-> IF e = 1 THEN "started" ELSE "absent"]
  /\ stops = [e \in Engines |-> 0]
  /\ start = [t \in Starters |-> NoStart]
  /\ nset = 0
  /\ notified = [o \in Observers \cup Callbacks |-> 0]
  /\ published = <<>>
  /\ pushed = [s \in Ws |-> <<>>]
  /\ sent = [s \in Ws |-> <<>>]
  /\ seen = [h \in Requests \cup Recorders \cup SpeechRequests \cup StopRequests |-> "none"]
  /\ resp = [h \in Requests \cup Recorders \cup Trainers \cup SpeechRequests
                    \cup StopRequests |-> NoResp]
  /\ result = [h \in Trainers |-> NoResult]
  /\ calls = [t \in Tasks |-> <<>>]
  /\ intent_json = [o \in Observers \cup Callbacks |-> NoJson]
  /\ message = [o \in Observers \cup Callbacks |-> AnIntent]

UnsubscribeNext == \E s \in Ws : api_events_remove_lock(s) \/ api_events_del(s)

UnsubscribeSpec == UnsubscribeInit /\ [][UnsubscribeNext]_vars

\* Training requests while a websocket is open.
api_train_step(h) ==
  \/ \E clear \in BOOLEAN : api_train(h, clear)
  \/ api_train_info(h)
  \/ api_train_spawn(h)
  \/ \E r \in TrainResults : \E seconds \in Seconds : api_train_result(h, r, seconds)
  \/ handle_error(h)

TrainNext ==
  \/ \E h \in Trainers : api_train_step(h)
  \/ \E t \in Trainers \cup RestartWs : add_ws_event_step(t)
  \/ \E s \in RestartWs : api_events_step(s)

TrainSpec == BusInit /\ [][TrainNext]_vars

\* Fair scheduling: the gevent loop runs every runnable greenlet and the
\* operating system every thread; clients and the engine are not obliged to act.
api_events_progress(s) ==
  \/ api_events_lock(s)
  \/ api_events_insert(s)
  \/ api_events_loop(s)
  \/ api_events_get(s)
  \/ api_events_send(s)
  \/ api_events_remove_lock(s)
  \/ api_events_del(s)
  \/ LockWait(s)
  \/ add_ws_event_step(s)

in_started_progress(o) ==
  \/ in_started_publish(o)
  \/ in_started_get(o)
  \/ in_started_ping(o)
  \/ add_ws_event_step(o)

BusFairSpec ==
  /\ BusSpec
  /\ \A s \in Ws : WF_vars(api_events_progress(s))
  /\ \A o \in Observers : WF_vars(in_started_progress(o))

\* ---- properties ----
Range(seq) == {seq[i] : i \in 1..Len(seq)}

Count(m, seq) == Cardinality({i \in 1..Len(seq) : seq[i] = m})

IsPrefix(a, b) == Len(a) <= Len(b) /\ \A i \in 1..Len(a) : a[i] = b[i]

Increasing(seq) == \A i, j \in 1..Len(seq) : i < j => seq[i] < seq[j]

\* The call of add_ws_event that took the lock as the k-th has left its loop.
Complete(k) == \A t \in Tasks : ~(pub[t].pc = "iter" /\ pub[t].msg = k)

\* C1: a publish puts its text exactly once on the queue of every websocket that
\* was registered on its channel when it took the lock, and on no other queue
\* (none of another channel, none registered later); while it is running it has
\* put the text at most once, and only on those queues.
C1_ExactlyOnce ==
  \A k \in 1..Len(published) : \A s \in Ws :
    LET n == Count(k, pushed[s])
    IN /\ n <= 1
       /\ n = 1 => s \in published[k].subs /\ chan[s] = published[k].ch
       /\ Complete(k) /\ s \in published[k].subs => n = 1

\* A complete publish reached a registered websocket and not one that registered
\* on the same channel after it.
C1_Witness ==
  \E k \in 1..Len(published) : \E s1, s2 \in Ws :
    /\ Complete(k)
    /\ s1 \in published[k].subs
    /\ Count(k, pushed[s1]) = 1
    /\ s2 \notin published[k].subs
    /\ chan[s2] = published[k].ch
    /\ s2 \in Keys(published[k].ch)

\* C2: every websocket is handed the texts of its channel in the order in which
\* they were published: its queue was filled in publish order, and what its
\* handler has sent is the beginning of what was put on its queue.
C2_PublishOrder ==
  \A s \in Ws : Increasing(pushed[s]) /\ IsPrefix(sent[s], pushed[s])

\* A handler has forwarded two texts.
C2_Witness == \E s \in Ws : Len(sent[s]) >= 2

\* The texts of the bus while the engine runs: two for every intent the observer
\* is told of, one for every websocket whose send fails.
Msgs == 1..(2 * MaxNotify + NumSessions)

C4_OneLiveEngine ==
  /\ Cardinality({e \in Engines : eng[e] = "started"}) <= 1
  /\ \A e \in Engines : e # core => eng[e] \in {"absent", "stopped"}

\* A restart has replaced a stopped engine by a started one.
C4_Witness ==
  /\ core # None
  /\ eng[core] = "started"
  /\ \E e \in Engines : e # core /\ eng[e] = "stopped"

\* C5: the stop sequence of an engine runs at most once, whether it is run by
\* the normal flow (api_restart) or by the exit handler shutdown().
C5_StopOnce == \A e \in Engines : stops[e] <= 1

\* C6: a call of start_rhasspy that finds core non-null fails: it constructs no
\* engine and leaves core and the engine it names as they are.
C6_AlreadyRunning ==
  [][\A t \in Starters :
       (start[t].pc = "construct" /\ start'[t].pc # "construct" /\ core # None)
         => (start'[t].pc = "raised" /\ core' = core /\ eng' = eng)]_vars

\* Restart r has stopped the old engine and not yet started the new one.
MidRestart(r) == pc[r] = "starting" /\ start[r].pc \in {"construct", "settings"}

\* C7: while a restart is between the stop of the old engine and the start of
\* the new one, no step of another task changes core or an engine (the process
\* keeps serving: the exit handler is not counted).
C7_RestartAtomic ==
  [][\A r \in Restarts :
       (MidRestart(r) /\ MidRestart(r)' /\ start'[r] = start[r] /\ pub'[r] = pub[r]
          /\ Serving')
         => UNCHANGED <<core, eng, stops>>]_vars

\* C8: a request handler that finds core non-null finds a started engine.
C8_SeesStarted == \A h \in Recorders : seen[h] \in {"none", "null", "started"}

\* C9: whenever the gevent loop is between handlers, or the process has run its
\* exit handler, core does not name an engine that is stopped or has failed.
C9_NoDeadHandle ==
  ((cur = Hub /\ Serving) \/ pc[Main] = "exited")
    => (core = None \/ eng[core] \notin {"stopped", "failed"})

api_restart_progress(r) ==
  \/ api_restart_step(r)
  \/ start_rhasspy_step(r)
  \/ add_ws_event_step(r)

RestartBusFairSpec ==
  /\ RestartBusSpec
  /\ \A s \in RestartWs : WF_vars(api_events_progress(s))
  /\ \A r \in Restarts : WF_vars(api_restart_progress(r))

\* The step is one of api_restart, of its start_rhasspy or of its log calls.
RestartStepOf(r) == pc'[r] # pc[r] \/ start'[r] # start[r] \/ pub'[r] # pub[r]

\* The texts of the bus during restarts: the log lines of every restart and of
\* the websocket.
RestartMsgs == 1..(NumRestarts * (3 + MaxSettings) + 1)

\* C10 as stated: no step of a restart changes a registry or a pending queue.
C10_QueuesUnchanged ==
  [][(\E r \in Restarts : RestartStepOf(r)) => ws_queues' = ws_queues]_vars

\* C10, amended: a step of a restart leaves every registry as it is, leaves the
\* queues of the intent channel as they are and only appends (its log lines) to
\* the queues of the log channel; no websocket is registered twice; and under
\* fair scheduling a websocket whose connection stays open is sent every text
\* put on its queue, before and after the restart.
C10_RestartKeepsSessions ==
  /\ [][(\E r \in Restarts : RestartStepOf(r)) =>
         \A c \in Channels :
           /\ Len(ws_queues'[c]) = Len(ws_queues[c])
           /\ \A i \in 1..Len(ws_queues[c]) :
                /\ ws_queues'[c][i].ws = ws_queues[c][i].ws
                /\ IsPrefix(ws_queues[c][i].q, ws_queues'[c][i].q)
                /\ c = WS_EVENT_INTENT => ws_queues'[c][i].q = ws_queues[c][i].q]_vars
  /\ [](\A s \in RestartWs :
          Cardinality({<<c, i>> \in Channels \X (1..NumSessions) :
                         i <= Len(ws_queues[c]) /\ ws_queues[c][i].ws = s}) <= 1)
  /\ \A s \in RestartWs : \A m \in RestartMsgs :
       (m \in Range(pushed[s]) /\ m \notin Range(sent[s]))
         ~> (m \in Range(sent[s]) \/ conn[s] # "open")

\* One restart has run to its end while a websocket of the log channel stayed
\* registered; the websocket has been sent three of its log lines and waits.
C10_Witness ==
  \E r \in Restarts : \E s \in RestartWs :
    /\ pc[r] = "done"
    /\ \A r2 \in Restarts \ {r} : pc[r2] = "idle"
    /\ chan[s] = WS_EVENT_LOG
    /\ s \in Keys(WS_EVENT_LOG)
    /\ pc[s] = "get"
    /\ Len(sent[s]) >= 3

\* The handler of websocket s has registered its queue and has not returned.
Active(s) == pc[s] \in {"loop", "get", "send", "unreg", "del"}

\* C11: the queue of a websocket is in the dict of a channel exactly while its
\* handler, connected to that channel, is active (registered and not yet ended),
\* however the handler ended.
C11_RegisteredIffActive ==
  \A s \in Ws : \A c \in Channels : s \in Keys(c) <=> (Active(s) /\ chan[s] = c)

\* The handler of websocket s has left its loop because ws.send raised.
SendFailed(s) == pc[s] \in {"unreg", "del", "done", "killed"} /\ text[s] # 0

\* C12: a handler whose send failed removes its queue exactly once before it
\* ends: the queue is in the dict of its channel until the handler deletes it,
\* and it is gone when the handler has ended.
C12_UnsubscribeOnce ==
  \A s \in Ws : SendFailed(s) => (s \in Keys(chan[s]) <=> pc[s] \in {"unreg", "del"})

\* C13: under fair scheduling, a handler that is blocked in q.get() when its
\* client has gone is woken and removes its queue, whether or not another text
\* is published.
C13_Unblocked ==
  \A s \in Ws : (pc[s] = "get" /\ conn[s] = "gone") ~> (s \notin Keys(chan[s]))

\* The step is one of the handler of websocket s, at or after a failed send.
FailureStepOf(s) ==
  /\ pc'[s] # pc[s] \/ pub'[s] # pub[s]
  /\ (pc[s] = "send" /\ conn[s] # "open") \/ SendFailed(s)

\* The entries of the dict of channel c that are not the one of websocket s.
OtherEntries(d, s) == SelectSeq(d, LAMBDA e : e.ws # s)

\* C14 as stated: a step by which a handler deals with its failed send leaves
\* every other websocket's entry and queue, and every history of the bus, as
\* they are.
C14_OthersUnchanged ==
  [][\A s \in Ws : FailureStepOf(s) =>
       /\ \A c \in Channels : OtherEntries(ws_queues'[c], s) = OtherEntries(ws_queues[c], s)
       /\ \A t \in Tasks \ {s} : pub'[t] = pub[t]]_vars

\* C14, amended: such a step removes no entry but the handler's own, leaves the
\* other entries of every dict in their order, leaves the queues of the intent
\* channel as they are and only appends the handler's own log line (the logged
\* exception) to the queues of the log channel; it changes no publish of another
\* task: neither its frame nor the texts it has put on any queue.
C14_FailureIsLocal ==
  [][\A s \in Ws : FailureStepOf(s) =>
       /\ \A c \in Channels :
            LET old == OtherEntries(ws_queues[c], s)
                new == OtherEntries(ws_queues'[c], s)
            IN /\ Len(new) = Len(old)
               /\ \A i \in 1..Len(old) :
                    /\ new[i].ws = old[i].ws
                    /\ IsPrefix(old[i].q, new[i].q)
                    /\ Range(new[i].q) \ Range(old[i].q) \subseteq {pub[s].msg}
                    /\ c = WS_EVENT_INTENT => new[i].q = old[i].q
       /\ \A t \in Tasks \ {s} : pub'[t] = pub[t]
       /\ IsPrefix(published, published')
       /\ \A o \in Ws \ {s} : IsPrefix(pushed[o], pushed'[o])]_vars

\* A handler whose send failed has ended, and a websocket of the log channel is
\* still registered and has been handed the log line of the failure.
C14_Witness ==
  \E s, o \in Ws :
    /\ s # o
    /\ SendFailed(s)
    /\ pc[s] = "done"
    /\ chan[o] = WS_EVENT_LOG
    /\ o \in Keys(WS_EVENT_LOG)
    /\ conn[o] = "open"
    /\ Len(pushed[o]) >= 2

\* The states of an engine that is not running.
NotRunning == {"null", "created", "stopped", "failed"}

\* C15: a request handler that reads core when no running engine is behind it
\* (core is null or, as core is not cleared when an engine is stopped, names an
\* engine that is stopped, has failed or is not started yet) answers with an
\* error that has a message, and calls no engine: it does not answer "OK".
C15_NotReady ==
  \A h \in Recorders :
    (seen[h] \in NotRunning /\ resp[h].status # 0)
      => (resp[h].status = 500 /\ resp[h].body # <<>>)

\* C16: when the process has ended, on whatever path, the exit handler has run
\* and no engine is left started.
C16_ShutdownRuns ==
  pc[Main] \in {"exited", "terminated"} => \A e \in Engines : eng[e] # "started"

\* The words of part occur in whole, next to each other and in their order.
Contains(whole, part) ==
  \E i \in 0..(Len(whole) - Len(part)) : SubSeq(whole, i + 1, i + Len(part)) = part

\* C17: when api_train has answered, then if core.train returned a
\* ProfileTrainingFailed with reason r the answer is an error (status 500) whose
\* message contains r word for word, and otherwise it is the completion message
\* with status 200.
C17_TrainingFailure ==
  \A h \in Trainers :
    (result[h] # NoResult /\ resp[h].status # 0) =>
      IF result[h].type = "ProfileTrainingFailed"
        THEN resp[h].status = 500 /\ Contains(resp[h].body, result[h].reason)
        ELSE /\ resp[h].status = 200
             /\ \E seconds \in Seconds : resp[h].body = TrainingCompleted(seconds)

\* A training that failed for want of a sentences file has been answered.
C17_Witness ==
  \E h \in Trainers :
    /\ pc[h] = "failed"
    /\ result[h] = [type |-> "ProfileTrainingFailed",
                    reason |-> <<"missing", "sentences", "file">>]
    /\ resp[h].status = 500

\* Task t is in a call of add_ws_event that found no queue on its channel.
EmptyPublish(t) ==
  /\ pub[t].pc \in {"iter", "sleep"}
  /\ published[pub[t].msg].subs = {}

\* C18: a call of add_ws_event that finds no queue on its channel when it takes
\* the lock changes no dict and no queue of any channel: it goes straight on to
\* release the lock and to gevent.sleep(0), and under fair scheduling it returns.
C18_EmptyPublish ==
  /\ [][\A t \in Ws \cup Observers :
         (pub[t].pc = "lock" /\ pub'[t].pc = "iter" /\ Keys(pub[t].ch) = {})
           => (ws_queues' = ws_queues /\ EmptyPublish(t)')]_vars
  /\ [][\A t \in Ws \cup Observers :
         (EmptyPublish(t) /\ pub'[t] # pub[t])
           => /\ ws_queues' = ws_queues
              /\ pushed' = pushed
              /\ \/ pub[t].pc = "iter" /\ pub'[t].pc = "sleep"
                 \/ pub[t].pc = "sleep" /\ pub'[t].pc = "none"]_vars
  /\ \A t \in Ws \cup Observers : EmptyPublish(t) ~> (pub[t].pc = "none")

\* A publish on a channel without queue has returned while a queue is registered
\* on the other channel.
C18_Witness ==
  \E k \in 1..Len(published) :
    /\ published[k].subs = {}
    /\ \A t \in Tasks : pub[t].pc = "none"
    /\ Keys(1 - published[k].ch) # {}

BridgeNext ==
  \/ \E t \in RestartWs \cup Observers \cup Callbacks : add_ws_event_step(t)
  \/ \E t \in RestartWs \cup Callbacks : LockWait(t)
  \/ \E s \in RestartWs : api_events_step(s)
  \/ \E o \in Observers \cup Callbacks : in_started_step(o)

BridgeSpec == BusInit /\ [][BridgeNext]_vars

BridgeFairSpec ==
  /\ BridgeSpec
  /\ \A s \in RestartWs : WF_vars(api_events_progress(s))
  /\ \A o \in Observers \cup Callbacks : WF_vars(in_started_progress(o) \/ LockWait(o))

\* A step of the program itself: of a handler or of a callback, not of a client.
Progress ==
  \/ \E s \in Ws : api_events_progress(s)
  \/ \E o \in Observers \cup Callbacks : in_started_progress(o)

\* C21: the ping request issued after an intent publish never deadlocks, also
\* when the callback that issues it runs inside the gevent loop: while a callback
\* waits for the answer, the program can take a step.
C21_NeverDeadlocks ==
  \A o \in Observers \cup Callbacks : pc[o] = "wait" => ENABLED <<Progress>>_vars

\* C21, as progress: a callback that was invoked returns.
C21_CallbackReturns ==
  \A o \in Observers \cup Callbacks : (pc[o] # "idle") ~> (pc[o] = "idle")

\* ---- the observer's callback ----
IntentRound == <<"intent", "publish", "bridge", "return">>

OtherRound == <<"other", "return">>

\* The history h consists of complete callbacks and the started part of one more:
\* a callback for an IntentRecognized published once on the intent channel, then
\* sent the ping, then returned; a callback for another message only returned.
RECURSIVE Rounds(_)
Rounds(h) ==
  IF Len(h) >= Len(IntentRound) /\ Head(h) = "intent"
    THEN /\ SubSeq(h, 1, Len(IntentRound)) = IntentRound
         /\ Rounds(SubSeq(h, Len(IntentRound) + 1, Len(h)))
  ELSE IF Len(h) >= Len(OtherRound) /\ Head(h) = "other"
    THEN /\ SubSeq(h, 1, Len(OtherRound)) = OtherRound
         /\ Rounds(SubSeq(h, Len(OtherRound) + 1, Len(h)))
  ELSE IsPrefix(h, IntentRound)

\* C22: every IntentRecognized notification leads to exactly one publish on the
\* intent channel, made before the callback returns and followed, never preceded,
\* by the ping; a notification of another kind leads to no publish and no ping.
C22_OnePublish ==
  /\ [](\A o \in Observers \cup Callbacks : Rounds(calls[o]))
  /\ \A o \in Observers \cup Callbacks :
       (Count("intent", calls[o]) > Count("publish", calls[o]))
         ~> (Count("intent", calls[o]) = Count("publish", calls[o]))

\* An IntentRecognized was published and pinged for, and the callback returned.
C22_Witness ==
  \E o \in Observers :
    /\ calls[o] = IntentRound
    /\ \E k \in 1..Len(published) : published[k].ch = WS_EVENT_INTENT

\* ---- the slots of a published intent ----
\* The observer is sent one IntentRecognized, with any of the intents.
SlotsInit ==
  /\ InitCommon
  /\ pc = [t \in Tasks |-> IF t = Main THEN "serving" ELSE "idle"]
  /\ cur = Hub
  /\ core = 1
  /\ nset = 0
  /\ eng = [e \in Engines |-> IF e = 1 THEN "started" ELSE "absent"]
  /\ start = [t \in Starters |-> NoStart]
  /\ \E intent \in Intents :
       message = [o \in Observers \cup Callbacks |-> IF o \in Observers THEN intent
                                                       ELSE AnIntent]

SlotsNext ==
  \E o \in Observers :
    \/ in_started_step(o)
    \/ add_ws_event_lock(o)
    \/ add_ws_event_unlock(o)
    \/ add_ws_event_sleep(o)

SlotsSpec == SlotsInit /\ [][SlotsNext]_vars

\* The members of the JSON object json whose name is k.
Members(json, k) == {i \in 1..Len(json) : json[i][1] = k}

\* The JSON text json carries the intent d with its entities as a flat map: the
\* names of the map are the names of the entities, each once and with the value
\* of the last entity of that name, and every other field of d is in json as it
\* is in d, and nothing else.
Flattened(d, json) ==
  LET entities == dict_get(d, "entities", <<>>)
  IN /\ Cardinality(Members(json, "slots")) = 1
     /\ \A i \in Members(json, "slots") :
          LET slots == json[i][2]
          IN /\ {slots[j][1] : j \in 1..Len(slots)} =
                  {entities[n].entity : n \in 1..Len(entities)}
             /\ \A j, k \in 1..Len(slots) : slots[j][1] = slots[k][1] => j = k
             /\ \A j \in 1..Len(slots) : \E n \in 1..Len(entities) :
                  /\ entities[n].entity = slots[j][1]
                  /\ entities[n].value = slots[j][2]
                  /\ \A m \in (n + 1)..Len(entities) : entities[m].entity # slots[j][1]
     /\ {json[i][1] : i \in 1..Len(json)} = {d.keys[i] : i \in 1..Len(d.keys)} \cup {"slots"}
     /\ \A i \in 1..Len(d.keys) : d.keys[i] # "slots" =>
          /\ Cardinality(Members(json, d.keys[i])) = 1
          /\ \A j \in Members(json, d.keys[i]) :
               json[j][2] = json_value(d.keys[i], d.val[d.keys[i]])

\* C23: the text the observer publishes for an intent carries a flat map whose
\* names are exactly the names of the intent's entities, each with the value of
\* the last entity of that name (an empty map when the intent has no entities or
\* an empty list), and the other fields of the intent unchanged.
C23_Slots ==
  [][\A o \in Observers :
       intent_json'[o] # intent_json[o] => Flattened(message[o], intent_json'[o])]_vars

\* An intent with two entities of one name and different values was published.
C23_Witness ==
  \E o \in Observers :
    /\ Count("publish", calls[o]) = 1
    /\ intent_json[o] # NoJson
    /\ LET entities == dict_get(message[o], "entities", <<>>)
       IN \E m, n \in 1..Len(entities) :
            /\ m < n
            /\ entities[m].entity = entities[n].entity
            /\ entities[m].value # entities[n].value

\* ---- the channel locks ----
\* Task t is inside the with block of channel c: the loop of add_ws_event, the
\* insert or the delete of a handler.
InWithBlock(t, c) ==
  \/ pub[t].pc = "iter" /\ pub[t].ch = c
  \/ pub[t].pc = "none" /\ t \in Ws /\ pc[t] \in {"insert", "del"} /\ chan[t] = c

\* C24: no task is suspended while it holds a channel lock: the holder is inside
\* a with block, not at the yield of add_ws_event, not waiting on its queue and
\* not sending, and a greenlet that holds a lock is the one that is running.
C24_NoSuspendedHolder ==
  \A c \in Channels : \A t \in Tasks :
    ws_locks[c] = t => InWithBlock(t, c) /\ (t \in Greenlets => cur = t)

\* A handler holds the lock of the log channel while it puts its exception on
\* the queue of a subscriber.
C24_Witness ==
  \E s \in Ws :
    /\ ws_locks[WS_EVENT_LOG] = s
    /\ pub[s].pc = "iter"
    /\ pub[s].idx > 1

\* ---- the intents of the request handlers ----
IntentRequests == Requests \cup SpeechRequests \cup StopRequests

\* One request to each of the three handlers, and a client that opens a websocket
\* on the endpoint of the intent channel and keeps it open.
IntentNext ==
  \/ \E h \in Requests : api_text_to_intent_step(h)
  \/ \E h \in SpeechRequests : api_speech_to_intent_step(h)
  \/ \E h \in StopRequests : api_stop_recording_step(h)
  \/ \E t \in IntentRequests : add_ws_event_step(t)
  \/ \E s \in RestartWs :
       \/ api_events_connect(s, WS_EVENT_INTENT)
       \/ api_events_lock(s)
       \/ api_events_insert(s)
       \/ api_events_loop(s)
       \/ api_events_get(s)
       \/ api_events_send(s)

IntentSpec == BusInit /\ [][IntentNext]_vars

\* What a handler does about an intent, in order, when handle_intent is called
\* and returns, when it is called and raises, and when nohass suppresses it.
Handled == <<"recognized", "publish", "handle", "return">>

HandleFailed == <<"recognized", "publish", "handle", "error">>

NotHandled == <<"recognized", "publish", "return">>

\* C25: each of api_text_to_intent, api_speech_to_intent and api_stop_recording
\* publishes on the intent channel exactly once per successful recognition, after
\* the recognition and before core.handle_intent is called, also when nohass
\* suppresses that call; the event stays published when handle_intent fails.
C25_PublishOnce ==
  /\ \A h \in IntentRequests :
       /\ \/ IsPrefix(calls[h], Handled)
          \/ IsPrefix(calls[h], HandleFailed)
          \/ IsPrefix(calls[h], NotHandled)
       /\ (Count("recognized", calls[h]) = 1 /\ resp[h].status # 0)
            => Count("publish", calls[h]) = 1
  /\ Cardinality({k \in 1..Len(published) : published[k].ch = WS_EVENT_INTENT})
       = Cardinality({h \in IntentRequests : Count("publish", calls[h]) = 1})

\* The three handlers have published: one was kept from handling by nohass, one
\* handled the intent and handle_intent of the third failed (status 500).
C25_Witness ==
  /\ \E h \in Requests : calls[h] = HandleFailed /\ resp[h].status = 500
  /\ \E h \in SpeechRequests : calls[h] = NotHandled /\ resp[h].status = 200
  /\ \E h \in StopRequests : calls[h] = Handled /\ resp[h].status = 200
  /\ Cardinality({k \in 1..Len(published) : published[k].ch = WS_EVENT_INTENT}) = 3
====
